---- MODULE Spec2Model ----
(***************************************************************************)
(* web-glitz-buffer-vec: growable GPU buffers (BufferVec, IndexBufferVec)  *)
(* and the amortized capacity planner they share (new_capacity_amortized). *)
(*                                                                         *)
(* Specifications of this module:                                          *)
(*   Spec          one vector (of either kind) after construction, driven  *)
(*                 by update / as_buffer_view calls, with the rendering    *)
(*                 context retiring the upload commands submitted to it;   *)
(*                 what the commands write is not followed here;           *)
(*   DeviceSpec    the same vector together with the device: the client    *)
(*                 also submits tasks that read through a view, and the    *)
(*                 context executes its queue in order against the         *)
(*                 buffers' memory;                                        *)
(*   FailSpec      Spec on a context whose submit may fail;                *)
(*   PlanSpec      the pure function new_capacity_amortized applied to     *)
(*                 inputs drawn from bounded sets (required lengths that   *)
(*                 a slice of sized elements can have);                    *)
(*   WidePlanSpec  the same function over the whole usize range;           *)
(*   AllSpec       Spec and WidePlanSpec side by side.                     *)
(*                                                                         *)
(* Capacities and lengths are `usize`: USizeBits wide.  Data handed to     *)
(* update is a slice of sized elements, so its length is at most           *)
(* isize::MAX (ISizeMax); Spec and PlanSpec draw required lengths from     *)
(* that range.  The doubling of the planner is modelled with its width:    *)
(* what it does when `new_capacity * 2` leaves the usize range depends on  *)
(* the build (overflow checks on: panic, off: wrap).                       *)
(***************************************************************************)
EXTENDS Integers, Sequences, FiniteSets, TLC

\* ---------------------------------------------------------------- bounds
USizeBits == 4
MaxLen == 5
MaxCap == 10
MaxPending == 1
MaxDeviceLen == 2

USizeMax == 2^USizeBits - 1
ISizeMax == 2^(USizeBits - 1) - 1

Min(a, b) == IF a < b THEN a ELSE b
Max(a, b) == IF a > b THEN a ELSE b

\* lengths of the slices passed to update, capacities passed to with_capacity
Lengths == 0..Min(MaxLen, ISizeMax)
Capacities == 0..Min(MaxCap, USizeMax)
Payloads == {"p", "q"}
\* data: D where D: Borrow<[T]>; the code reads only its length and hands the
\* contents on to the upload command, so the contents are an opaque payload
Data == [len : Lengths, payload : Payloads]
UsageHints == {"StaticDraw", "DynamicDraw"}
Kinds == {"BufferVec", "IndexBufferVec"}
\* how the context answers a submit: it accepts the task, it returns an
\* execution that has failed, or the call unwinds
SubmitModes == {"accept", "reject", "panic"}
\* a doubling chain within usize replaces the buffer at most USizeBits times
Buffers == 1..(USizeBits + 1)

VARIABLES
    kind,             \* which of the two structs this vector is
    context,          \* Rc: [created: buffers allocated so far, pending: tasks submitted, not yet executed]
    len,              \* the struct's `len` field
    buffer,           \* the struct's `buffer` field: [id, len, usage]
    pc,               \* "live" | "panicked" | "diverged" (vector); "call" | "returned" (planner)
    overflow_checks,  \* build profile: TRUE = arithmetic overflow panics, FALSE = wraps
    ret,              \* value returned by the last update: "true" | "false" | "unit"; "none" before
    view,             \* value returned by the last as_buffer_view
    last_op,          \* history: the last method called on the vector
    last_data,        \* history: the data passed to the most recent update
    ctor,             \* history: the constructor that made the vector
    max_len,          \* history: largest data length passed to update so far
    start_capacity,   \* history: capacity given at construction
    plan,             \* PlanSpec: [current_capacity, required_capacity, result]
    hint,             \* history: the usage hint given at construction
    allocated,        \* history: sum of the capacities of the buffers update allocated
    submit_mode,      \* environment: how the context answers a submit
    memory,           \* DeviceSpec: per buffer, the elements written so far
    observed          \* DeviceSpec: what the last executed reading task saw

vars == <<kind, context, len, buffer, pc, overflow_checks, ret, view, last_op,
          last_data, ctor, max_len, start_capacity, plan, hint, allocated,
          submit_mode, memory, observed>>

\* ------------------------------------------------------------ Option<usize>
None == [tag |-> "None", val |-> 0]
Some(v) == [tag |-> "Some", val |-> v]
\* the two ways the call can fail to return
Panic == [tag |-> "Panic", val |-> 0]
Diverge == [tag |-> "Diverge", val |-> 0]

\* ------------------------------------------------------------------ util.rs
\* variant: the loop adds 2 instead of doubling
RECURSIVE doubling_loop_plus2(_, _, _)
doubling_loop_plus2(new_capacity, required_capacity, checks) ==
    IF new_capacity < required_capacity
    THEN doubling_loop_plus2(new_capacity + 2, required_capacity, checks)
    ELSE Some(new_capacity)

\* variant: the loop doubles once more when the capacity is exactly sufficient
RECURSIVE doubling_loop_le(_, _, _)
doubling_loop_le(new_capacity, required_capacity, checks) ==
    IF new_capacity <= required_capacity /\ new_capacity * 2 <= USizeMax
    THEN doubling_loop_le(new_capacity * 2, required_capacity, checks)
    ELSE Some(new_capacity)

\* the loop `while new_capacity < required_capacity { new_capacity = new_capacity * 2 }`
RECURSIVE doubling_loop(_, _, _)
doubling_loop(new_capacity, required_capacity, checks) ==
    IF new_capacity < required_capacity
    THEN LET product == new_capacity * 2
             wrapped == product % (2^USizeBits)
         IN  IF product > USizeMax /\ checks
             THEN Panic
             ELSE IF wrapped = 0
                  THEN Diverge   \* 0 * 2 = 0 < required_capacity for ever
                  ELSE doubling_loop(wrapped, required_capacity, checks)
    ELSE Some(new_capacity)

\* variant: the empty capacity is seeded with 1 instead of 2
new_capacity_amortized_seed1(current_capacity, required_capacity, checks) ==
    IF current_capacity < required_capacity
    THEN doubling_loop(IF current_capacity = 0 THEN 1 ELSE current_capacity,
                       required_capacity, checks)
    ELSE None

\* variant: grows already when the capacity is exactly sufficient
new_capacity_amortized_le(current_capacity, required_capacity, checks) ==
    IF current_capacity <= required_capacity
    THEN doubling_loop(IF current_capacity = 0 THEN 2 ELSE current_capacity,
                       required_capacity, checks)
    ELSE None

\* variant: doubles once instead of until sufficient
new_capacity_amortized_once(current_capacity, required_capacity, checks) ==
    IF current_capacity < required_capacity
    THEN Some(IF current_capacity = 0 THEN 2 ELSE (current_capacity * 2) % (2^USizeBits))
    ELSE None

\* variant: replans whenever the capacity differs from what is required,
\* doubling from the seed
new_capacity_amortized_refit(current_capacity, required_capacity, checks) ==
    IF current_capacity # required_capacity
    THEN doubling_loop(2, required_capacity, checks)
    ELSE None

\* variant: allocates exactly what is required
new_capacity_amortized_exact(current_capacity, required_capacity, checks) ==
    IF current_capacity < required_capacity
    THEN Some(required_capacity)
    ELSE None

\* variant: allocates what is required and a fixed headroom of two elements
new_capacity_amortized_headroom(current_capacity, required_capacity, checks) ==
    IF current_capacity < required_capacity
    THEN Some(required_capacity + 2)
    ELSE None

new_capacity_amortized(current_capacity, required_capacity, checks) ==
    IF current_capacity < required_capacity
    THEN LET new_capacity == IF current_capacity = 0 THEN 2 ELSE current_capacity
         IN  doubling_loop(new_capacity, required_capacity, checks)
    ELSE None

\* ------------------------------------------- web_glitz (external collaborator)
\* a context that has allocated nothing and has nothing queued
FreshContext == [created |-> 0, pending |-> <<>>]

\* RenderingContext::create_buffer_slice_uninit(len, usage): a new device
\* allocation of `len` uninitialised elements; every allocation has its own identity
create_buffer_slice_uninit(ctx, capacity, usage) ==
    [context |-> [ctx EXCEPT !.created = @ + 1],
     buffer  |-> [id |-> ctx.created + 1, len |-> capacity, usage |-> usage]]

\* RenderingContext::create_index_buffer_uninit(len, usage)
create_index_buffer_uninit(ctx, capacity, usage) ==
    [context |-> [ctx EXCEPT !.created = @ + 1],
     buffer  |-> [id |-> ctx.created + 1, len |-> capacity, usage |-> usage]]

NoView == [tag |-> "None", id |-> 0, start |-> 0, end |-> 0]

\* Buffer::get(start..end): Option<BufferView>, None when the range does not
\* lie within the buffer
Buffer_get(buf, start, end) ==
    IF start <= end /\ end <= buf.len
    THEN [tag |-> "Some", id |-> buf.id, start |-> start, end |-> end]
    ELSE NoView

\* BufferView::upload_command(data)
upload_command(v, data) ==
    [op |-> "upload", id |-> v.id, start |-> v.start, end |-> v.end, data |-> data]

\* a task of the client that reads the elements of a view (a draw call bound
\* to it); `data` is history: the data of the most recent update when the
\* task was submitted
read_command(v, expected) ==
    [op |-> "read", id |-> v.id, start |-> v.start, end |-> v.end, data |-> expected]

\* RenderingContext::submit(task): the task joins the context's queue, unless
\* the context does not accept it
submit(ctx, task) ==
    IF submit_mode = "accept" THEN [ctx EXCEPT !.pending = Append(@, task)] ELSE ctx

PendingUploads(ctx) ==
    Cardinality({i \in 1..Len(ctx.pending) : ctx.pending[i].op = "upload"})

\* ------------------------------------------------------------ constructors
BufferVec_new(ctx, usage) ==
    LET made == create_buffer_slice_uninit(ctx, 0, usage)
    IN  [context |-> made.context, len |-> 0, buffer |-> made.buffer]

\* variant: rounds the requested capacity up to an even number
BufferVec_with_capacity_rounded(ctx, usage, capacity) ==
    LET made == create_buffer_slice_uninit(ctx, capacity + (capacity % 2), usage)
    IN  [context |-> made.context, len |-> 0, buffer |-> made.buffer]

BufferVec_with_capacity(ctx, usage, capacity) ==
    LET made == create_buffer_slice_uninit(ctx, capacity, usage)
    IN  [context |-> made.context, len |-> 0, buffer |-> made.buffer]

IndexBufferVec_new(ctx, usage) ==
    LET made == create_index_buffer_uninit(ctx, 0, usage)
    IN  [context |-> made.context, len |-> 0, buffer |-> made.buffer]

IndexBufferVec_with_capacity(ctx, usage, capacity) ==
    LET made == create_index_buffer_uninit(ctx, capacity, usage)
    IN  [context |-> made.context, len |-> 0, buffer |-> made.buffer]

\* fn capacity(&self) -> usize
BufferVec_capacity == buffer.len
IndexBufferVec_capacity == buffer.len

NoData == [len |-> 0, payload |-> "none"]
NoPlan == [current_capacity |-> 0, required_capacity |-> 0, result |-> None]
\* nothing has been written to any buffer, no reading task has executed
NoMemory == [b \in Buffers |-> <<>>]
NoObservation == [id |-> 0, data |-> NoData, seen |-> <<>>, overtaken |-> FALSE]

\* the state right after `new` or `with_capacity` returned
Constructed(k, self, op, c, usage) ==
    /\ kind = k
    /\ context = self.context
    /\ len = self.len
    /\ buffer = self.buffer
    /\ pc = "live"
    /\ ret = "none"
    /\ view = NoView
    /\ last_op = op
    /\ last_data = NoData
    /\ ctor = op
    /\ max_len = 0
    /\ start_capacity = c
    /\ plan = NoPlan
    /\ hint = usage
    /\ allocated = 0
    /\ memory = NoMemory
    /\ observed = NoObservation

\* a vector of either kind made by either constructor with a capacity of Caps
ConstructedOver(Caps) ==
    /\ overflow_checks \in BOOLEAN
    /\ \E usage \in UsageHints :
        \/ Constructed("BufferVec", BufferVec_new(FreshContext, usage), "new", 0, usage)
        \/ \E c \in Caps :
             Constructed("BufferVec", BufferVec_with_capacity(FreshContext, usage, c),
                         "with_capacity", c, usage)
        \/ Constructed("IndexBufferVec", IndexBufferVec_new(FreshContext, usage), "new", 0, usage)
        \/ \E c \in Caps :
             Constructed("IndexBufferVec", IndexBufferVec_with_capacity(FreshContext, usage, c),
                         "with_capacity", c, usage)

Init ==
    /\ submit_mode = "accept"
    /\ ConstructedOver(Capacities)

\* ------------------------------------------------------------------ update
\* what the struct's fields, the context and the caller hold when the call to
\* update ends: `pc` is "live" when it returned, "panicked" when it unwound
\* (the overflow check of the planner, the unwrap of buffer.get, or submit),
\* and "diverged" when the planner's loop never ends
Unwound(new_len, buf, ctx, how) ==
    [len |-> new_len, buffer |-> buf, context |-> ctx, ret |-> ret, pc |-> how]

\* `context.submit(upload_task);` and the return: whatever submit returns is
\* dropped, the call ends with `flag`
Submitted(new_len, buf, ctx, task, flag) ==
    IF submit_mode = "panic"
    THEN Unwound(new_len, buf, ctx, "panicked")
    ELSE [len     |-> new_len,
          buffer  |-> buf,
          context |-> submit(ctx, task),
          ret     |-> flag,
          pc      |-> "live"]

\* variant: the flag is never set
BufferVec_update_effect_noflag(data) ==
    LET new_len == data.len
        planned == new_capacity_amortized(buffer.len, new_len, overflow_checks)
        made == IF planned.tag = "Some"
                THEN create_buffer_slice_uninit(context, planned.val, buffer.usage)
                ELSE [context |-> context, buffer |-> buffer]
        range == Buffer_get(made.buffer, 0, new_len)
    IN  IF range.tag = "None"
        THEN Unwound(new_len, made.buffer, made.context, "panicked")
        ELSE Submitted(new_len, made.buffer, made.context,
                       upload_command(range, data), "false")

\* variant: every update allocates, also when the capacity suffices
BufferVec_update_effect_always(data) ==
    LET new_len == data.len
        planned == new_capacity_amortized(buffer.len, new_len, overflow_checks)
        made == create_buffer_slice_uninit(context,
                    IF planned.tag = "Some" THEN planned.val ELSE buffer.len, buffer.usage)
        range == Buffer_get(made.buffer, 0, new_len)
    IN  IF range.tag = "None"
        THEN Unwound(new_len, made.buffer, made.context, "panicked")
        ELSE Submitted(new_len, made.buffer, made.context,
                       upload_command(range, data),
                       IF planned.tag = "Some" THEN "true" ELSE "false")

\* variant: nothing is submitted for empty data
BufferVec_update_effect_skip_empty(data) ==
    LET new_len == data.len
        planned == new_capacity_amortized(buffer.len, new_len, overflow_checks)
        made == IF planned.tag = "Some"
                THEN create_buffer_slice_uninit(context, planned.val, buffer.usage)
                ELSE [context |-> context, buffer |-> buffer]
        range == Buffer_get(made.buffer, 0, new_len)
        flag == IF planned.tag = "Some" THEN "true" ELSE "false"
    IN  IF range.tag = "None"
        THEN Unwound(new_len, made.buffer, made.context, "panicked")
        ELSE IF new_len = 0
             THEN [len |-> new_len, buffer |-> made.buffer, context |-> made.context,
                   ret |-> flag, pc |-> "live"]
             ELSE Submitted(new_len, made.buffer, made.context,
                            upload_command(range, data), flag)

\* variant: the upload covers the length the vector had before the call
BufferVec_update_effect_stale_len(data) ==
    LET new_len == data.len
        planned == new_capacity_amortized(buffer.len, new_len, overflow_checks)
        made == IF planned.tag = "Some"
                THEN create_buffer_slice_uninit(context, planned.val, buffer.usage)
                ELSE [context |-> context, buffer |-> buffer]
        range == Buffer_get(made.buffer, 0, len)
    IN  IF range.tag = "None"
        THEN Unwound(new_len, made.buffer, made.context, "panicked")
        ELSE Submitted(new_len, made.buffer, made.context,
                       upload_command(range, data),
                       IF planned.tag = "Some" THEN "true" ELSE "false")

\* variant: the upload goes to the buffer the vector held before the call
BufferVec_update_effect_upload_old(data) ==
    LET new_len == data.len
        planned == new_capacity_amortized(buffer.len, new_len, overflow_checks)
        made == IF planned.tag = "Some"
                THEN create_buffer_slice_uninit(context, planned.val, buffer.usage)
                ELSE [context |-> context, buffer |-> buffer]
        range == Buffer_get(buffer, 0, Min(new_len, buffer.len))
    IN  IF range.tag = "None"
        THEN Unwound(new_len, made.buffer, made.context, "panicked")
        ELSE Submitted(new_len, made.buffer, made.context,
                       upload_command(range, data),
                       IF planned.tag = "Some" THEN "true" ELSE "false")

\* variant: a replacement buffer is always created with the StaticDraw hint
BufferVec_update_effect_statichint(data) ==
    LET new_len == data.len
        planned == new_capacity_amortized(buffer.len, new_len, overflow_checks)
        made == IF planned.tag = "Some"
                THEN create_buffer_slice_uninit(context, planned.val, "StaticDraw")
                ELSE [context |-> context, buffer |-> buffer]
        range == Buffer_get(made.buffer, 0, new_len)
    IN  IF range.tag = "None"
        THEN Unwound(new_len, made.buffer, made.context, "panicked")
        ELSE Submitted(new_len, made.buffer, made.context,
                       upload_command(range, data),
                       IF planned.tag = "Some" THEN "true" ELSE "false")

\* variant: the buffer grows in place, keeping its identity
BufferVec_update_effect_inplace(data) ==
    LET new_len == data.len
        planned == new_capacity_amortized(buffer.len, new_len, overflow_checks)
        made == IF planned.tag = "Some"
                THEN [context |-> [context EXCEPT !.created = @ + 1],
                      buffer  |-> [buffer EXCEPT !.len = planned.val]]
                ELSE [context |-> context, buffer |-> buffer]
        range == Buffer_get(made.buffer, 0, new_len)
    IN  IF range.tag = "None"
        THEN Unwound(new_len, made.buffer, made.context, "panicked")
        ELSE Submitted(new_len, made.buffer, made.context,
                       upload_command(range, data),
                       IF planned.tag = "Some" THEN "true" ELSE "false")

BufferVec_update_effect(data) ==
    LET new_len == data.len
        current_capacity == buffer.len
        planned == new_capacity_amortized(current_capacity, new_len, overflow_checks)
    IN  IF planned.tag = "Panic" THEN Unwound(new_len, buffer, context, "panicked")
        ELSE IF planned.tag = "Diverge" THEN Unwound(new_len, buffer, context, "diverged")
        ELSE
        LET reallocated == planned.tag = "Some"
            made == IF reallocated
                    THEN create_buffer_slice_uninit(context, planned.val, buffer.usage)
                    ELSE [context |-> context, buffer |-> buffer]
            range == Buffer_get(made.buffer, 0, new_len)
        IN  IF range.tag = "None"
            THEN Unwound(new_len, made.buffer, made.context, "panicked")
            ELSE Submitted(new_len, made.buffer, made.context,
                           upload_command(range, data),
                           IF reallocated THEN "true" ELSE "false")

\* variant: plans for one element more than the data has
IndexBufferVec_update_effect_spare(data) ==
    LET new_len == data.len
        planned == new_capacity_amortized(buffer.len, new_len + 1, overflow_checks)
        made == IF planned.tag = "Some"
                THEN create_index_buffer_uninit(context, planned.val, buffer.usage)
                ELSE [context |-> context, buffer |-> buffer]
        range == Buffer_get(made.buffer, 0, new_len)
    IN  IF range.tag = "None"
        THEN Unwound(new_len, made.buffer, made.context, "panicked")
        ELSE Submitted(new_len, made.buffer, made.context,
                       upload_command(range, data), "unit")

IndexBufferVec_update_effect(data) ==
    LET new_len == data.len
        current_capacity == buffer.len
        planned == new_capacity_amortized(current_capacity, new_len, overflow_checks)
    IN  IF planned.tag = "Panic" THEN Unwound(new_len, buffer, context, "panicked")
        ELSE IF planned.tag = "Diverge" THEN Unwound(new_len, buffer, context, "diverged")
        ELSE
        LET made == IF planned.tag = "Some"
                    THEN create_index_buffer_uninit(context, planned.val, buffer.usage)
                    ELSE [context |-> context, buffer |-> buffer]
            range == Buffer_get(made.buffer, 0, new_len)
        IN  IF range.tag = "None"
            THEN Unwound(new_len, made.buffer, made.context, "panicked")
            ELSE Submitted(new_len, made.buffer, made.context,
                           upload_command(range, data), "unit")

\* the call `vec.update(data)`
Updated(after, data) ==
    /\ len' = after.len
    /\ buffer' = after.buffer
    /\ context' = after.context
    /\ ret' = after.ret
    /\ pc' = after.pc
    /\ last_op' = "update"
    /\ last_data' = data
    /\ max_len' = Max(max_len, data.len)
    /\ allocated' = allocated + (after.context.created - context.created) * after.buffer.len
    /\ UNCHANGED <<kind, overflow_checks, view, ctor, start_capacity, plan, hint,
                   submit_mode, memory, observed>>

\* the guard on the queue keeps the model finite
BufferVec_update(data) ==
    /\ pc = "live"
    /\ kind = "BufferVec"
    /\ PendingUploads(context) < MaxPending
    /\ Updated(BufferVec_update_effect(data), data)

IndexBufferVec_update(data) ==
    /\ pc = "live"
    /\ kind = "IndexBufferVec"
    /\ PendingUploads(context) < MaxPending
    /\ Updated(IndexBufferVec_update_effect(data), data)

\* ---------------------------------------------------------- as_buffer_view
\* variant: the view covers the whole allocation
BufferVec_as_buffer_view_effect_whole == Buffer_get(buffer, 0, buffer.len)

BufferVec_as_buffer_view_effect == Buffer_get(buffer, 0, len)

IndexBufferVec_as_buffer_view_effect == Buffer_get(buffer, 0, len)

Viewed(got) ==
    /\ view' = got
    /\ pc' = IF got.tag = "None" THEN "panicked" ELSE "live"   \* .unwrap()
    /\ last_op' = "as_buffer_view"
    /\ UNCHANGED <<kind, context, len, buffer, overflow_checks, ret, last_data, ctor,
                   max_len, start_capacity, plan, hint, allocated, submit_mode,
                   memory, observed>>

BufferVec_as_buffer_view ==
    /\ pc = "live"
    /\ kind = "BufferVec"
    /\ Viewed(BufferVec_as_buffer_view_effect)

IndexBufferVec_as_buffer_view ==
    /\ pc = "live"
    /\ kind = "IndexBufferVec"
    /\ Viewed(IndexBufferVec_as_buffer_view_effect)

\* ------------------------------------------------------------------ context
\* the context retires the oldest task of its queue; Spec does not follow what
\* the task does to the buffers' memory
Context_execute ==
    /\ context.pending # <<>>
    /\ context' = [context EXCEPT !.pending = Tail(@)]
    /\ UNCHANGED <<kind, len, buffer, pc, overflow_checks, ret, view, last_op,
                   last_data, ctor, max_len, start_capacity, plan, hint, allocated,
                   submit_mode, memory, observed>>

Next ==
    \/ \E data \in Data : BufferVec_update(data)
    \/ \E data \in Data : IndexBufferVec_update(data)
    \/ BufferVec_as_buffer_view
    \/ IndexBufferVec_as_buffer_view
    \/ Context_execute

Spec == Init /\ [][Next]_vars

\* ---------------------------------------------------------------- FailSpec
\* the vector on a context that answers every submit in one of SubmitModes
FailInit ==
    /\ submit_mode \in SubmitModes
    /\ ConstructedOver(Capacities)

FailSpec == FailInit /\ [][Next]_vars

\* -------------------------------------------------------------- DeviceSpec
\* the elements of buffer cmd.id after the upload cmd has executed: the
\* data's elements over [start, end), what was there before elsewhere
Written(mem, cmd) ==
    LET old == mem[cmd.id]
        cells == [i \in 1..Max(Len(old), cmd.end) |->
                    IF cmd.start < i /\ i <= cmd.end THEN cmd.data.payload
                    ELSE IF i <= Len(old) THEN old[i] ELSE "uninit"]
    IN  [mem EXCEPT ![cmd.id] = cells]

\* the elements a task reading [start, end) of buffer cmd.id sees
Contents(mem, cmd) ==
    LET cells == mem[cmd.id]
    IN  [i \in 1..(cmd.end - cmd.start) |->
            IF cmd.start + i <= Len(cells) THEN cells[cmd.start + i] ELSE "uninit"]

\* the client submits a task that reads through the view it obtained after
\* the most recent update
Client_submit_read ==
    /\ pc = "live"
    /\ last_op = "as_buffer_view"
    /\ Len(context.pending) <= MaxPending
    /\ context' = submit(context, read_command(view, last_data))
    /\ UNCHANGED <<kind, len, buffer, pc, overflow_checks, ret, view, last_op,
                   last_data, ctor, max_len, start_capacity, plan, hint, allocated,
                   submit_mode, memory, observed>>

\* the context executes the oldest task of its queue: an upload writes the
\* buffer's memory, a reading task sees it (`overtaken` is history: an upload
\* submitted after the reading task was waiting behind it)
Device_execute ==
    /\ context.pending # <<>>
    /\ LET cmd == Head(context.pending)
       IN  /\ context' = [context EXCEPT !.pending = Tail(@)]
           /\ memory' = IF cmd.op = "upload" THEN Written(memory, cmd) ELSE memory
           /\ observed' = IF cmd.op = "read"
                          THEN [id |-> cmd.id, data |-> cmd.data,
                                seen |-> Contents(memory, cmd),
                                overtaken |-> PendingUploads(context) > 0]
                          ELSE observed
    /\ UNCHANGED <<kind, len, buffer, pc, overflow_checks, ret, view, last_op,
                   last_data, ctor, max_len, start_capacity, plan, hint, allocated,
                   submit_mode>>

\* slices of every length up to MaxDeviceLen, with contents that tell slices
\* of neighbouring lengths apart
DeviceData ==
    {d \in [len : 0..Min(MaxDeviceLen, ISizeMax), payload : Payloads] :
        d.payload = (IF d.len % 2 = 0 THEN "p" ELSE "q")}

\* a BufferVec or IndexBufferVec made with a capacity that the data of
\* DeviceData can outgrow; the build and the usage hint do not bear on what
\* the device executes
DeviceInit ==
    /\ submit_mode = "accept"
    /\ ConstructedOver(0..Min(MaxDeviceLen, USizeMax))
    /\ overflow_checks
    /\ hint = "DynamicDraw"

DeviceNext ==
    \/ \E data \in DeviceData : BufferVec_update(data)
    \/ \E data \in DeviceData : IndexBufferVec_update(data)
    \/ BufferVec_as_buffer_view
    \/ IndexBufferVec_as_buffer_view
    \/ Client_submit_read
    \/ Device_execute

DeviceSpec == DeviceInit /\ [][DeviceNext]_vars

\* ---------------------------------------------------------------- PlanSpec
\* new_capacity_amortized on its own: Init draws the two arguments (any usize
\* as the current capacity, the required one from Required), the one action
\* applies the function
PlanInitOver(Required) ==
    /\ overflow_checks \in BOOLEAN
    /\ \E c \in 0..USizeMax, r \in Required :
         plan = [current_capacity |-> c, required_capacity |-> r, result |-> None]
    /\ pc = "call"
    /\ kind = "none"
    /\ context = FreshContext
    /\ len = 0
    /\ buffer = [id |-> 0, len |-> 0, usage |-> "none"]
    /\ ret = "none"
    /\ view = NoView
    /\ last_op = "none"
    /\ last_data = NoData
    /\ ctor = "none"
    /\ max_len = 0
    /\ start_capacity = 0
    /\ hint = "none"
    /\ allocated = 0
    /\ submit_mode = "accept"
    /\ memory = NoMemory
    /\ observed = NoObservation

\* any slice length as the required capacity
PlanInit == PlanInitOver(0..ISizeMax)

Plan_call ==
    /\ pc = "call"
    /\ plan' = [plan EXCEPT !.result = new_capacity_amortized(plan.current_capacity,
                                                             plan.required_capacity,
                                                             overflow_checks)]
    /\ pc' = "returned"
    /\ UNCHANGED <<kind, context, len, buffer, overflow_checks, ret, view, last_op,
                   last_data, ctor, max_len, start_capacity, hint, allocated,
                   submit_mode, memory, observed>>

PlanNext == Plan_call

PlanSpec == PlanInit /\ [][PlanNext]_vars

\* ------------------------------------------------------------ WidePlanSpec
\* any usize as the required capacity (lengths above isize::MAX are those of
\* slices of zero-sized elements)
WidePlanInit == PlanInitOver(0..USizeMax)

WidePlanSpec == WidePlanInit /\ [][PlanNext]_vars

\* ----------------------------------------------------------------- AllSpec
AllInit == Init \/ WidePlanInit

AllNext == Next \/ PlanNext

AllSpec == AllInit /\ [][AllNext]_vars

\* ================================================================== claims
\* steps of a behaviour, recognised from the outside
\* a call to update that returned: exactly one more command is queued
UpdateStep ==
    /\ last_op' = "update"
    /\ pc' = "live"
    /\ Len(context'.pending) = Len(context.pending) + 1

IsPowerOfTwo(n) == \E k \in 0..USizeBits : n = 2^k

\* the least element of s, 2s, 4s, ... that is >= n (s > 0)
LeastDoubling(s, n) ==
    LET seq == {s * 2^k : k \in 0..(USizeBits + 1)}
    IN  CHOOSE v \in seq : v >= n /\ \A w \in seq : w >= n => v <= w

\* ------------------------------------------------------------------- C1
\* C1: in every reachable state 0 <= len <= capacity, and the range lookup
\* buffer.get(0..len) of update and as_buffer_view is never None (no call
\* has unwound from its unwrap)
C1_LenWithinCapacity ==
    /\ 0 <= len
    /\ len <= buffer.len
    /\ Buffer_get(buffer, 0, len).tag = "Some"
    /\ pc = "live"

\* a vector whose update grew it to exactly the length of the data, and a view
\* taken afterwards
C1_Witness ==
    /\ buffer.id > 1
    /\ len = 4
    /\ len = buffer.len
    /\ last_op = "as_buffer_view"
    /\ view.end = 4

\* ------------------------------------------------------------------- C2
\* C2: len is the length of the data of the most recent update (0 before the
\* first), and a view returned by as_buffer_view covers exactly the elements
\* [0, that length) of the current buffer
C2_LenIsLastDataLen ==
    /\ ret = "none" => len = 0
    /\ ret # "none" => len = last_data.len
    /\ last_op = "as_buffer_view" =>
         /\ view.tag = "Some"
         /\ view.id = buffer.id
         /\ view.start = 0
         /\ view.end - view.start = last_data.len

\* a view of 3 elements taken from a larger buffer after an update
C2_Witness ==
    /\ last_op = "as_buffer_view"
    /\ ret # "none"
    /\ view.end = 3
    /\ buffer.len > 3

\* ------------------------------------------------------------------- C3
\* C3: BufferVec::update returns true exactly when the planner returned a new
\* capacity, which is exactly when the data is longer than the capacity before
\* the call; the buffer handle is replaced in exactly those calls, and no other
\* step replaces it
C3_FlagIffGrowth ==
    [][/\ (UpdateStep /\ kind = "BufferVec") =>
            /\ (ret' = "true") <=> (last_data'.len > buffer.len)
            /\ (ret' = "true") <=>
                 (new_capacity_amortized(buffer.len, last_data'.len, overflow_checks).tag = "Some")
            /\ (buffer'.id # buffer.id) <=> (last_data'.len > buffer.len)
            /\ (ret' = "false") => /\ buffer' = buffer
                                   /\ context'.created = context.created
                                   /\ context'.pending[Len(context'.pending)].id = buffer.id
       /\ ~UpdateStep => buffer' = buffer]_vars

\* one update that reallocated, a later one that reused the allocation
C3_Witness ==
    /\ kind = "BufferVec"
    /\ buffer.id = 2
    /\ ret = "false"
    /\ len > 0

\* ------------------------------------------------------------------- C4
\* C4: whenever current_capacity >= required_capacity the planner returns None
C4_NoGrowthWhenSufficient ==
    (pc = "returned" /\ plan.current_capacity >= plan.required_capacity)
        => plan.result = None

\* the capacity is far larger than required
C4_Witness ==
    /\ pc = "returned"
    /\ plan.current_capacity = 10
    /\ plan.required_capacity = 1
    /\ plan.result = None

\* ------------------------------------------------------------------- C5
\* C5: whenever current_capacity < required_capacity the planner returns
\* Some(v) with v the least element >= required_capacity of the doubling
\* sequence that starts at current_capacity, or at 2 when that is 0; in
\* particular (0,1) -> 2, (2,3) -> 4, (4,5) -> 8
C5_LeastDoubling ==
    pc = "returned" =>
        /\ plan.current_capacity < plan.required_capacity =>
             plan.result = Some(LeastDoubling(IF plan.current_capacity = 0
                                              THEN 2 ELSE plan.current_capacity,
                                              plan.required_capacity))
        /\ (plan.current_capacity = 0 /\ plan.required_capacity = 1) => plan.result = Some(2)
        /\ (plan.current_capacity = 2 /\ plan.required_capacity = 3) => plan.result = Some(4)
        /\ (plan.current_capacity = 4 /\ plan.required_capacity = 5) => plan.result = Some(8)

\* a capacity that is no power of two, doubled once
C5_Witness ==
    /\ pc = "returned"
    /\ plan.current_capacity = 3
    /\ plan.required_capacity = 5
    /\ plan.result = Some(6)

\* ------------------------------------------------------------------- C6
\* C6: no step lowers the capacity, and an update whose data fits the current
\* capacity leaves the capacity as it is
C6_CapacityNeverShrinks ==
    [][/\ buffer'.len >= buffer.len
       /\ (UpdateStep /\ last_data'.len <= buffer.len) => buffer'.len = buffer.len]_vars

\* an empty update of a vector that had grown to 8
C6_Witness ==
    /\ last_op = "update"
    /\ last_data.len = 0
    /\ buffer.len = 8
    /\ max_len = 5

\* ------------------------------------------------------------------- C7
\* C7 as stated: every capacity installed by a reallocating update is a power
\* of two that is at least 2, whatever the starting capacity
C7_Original ==
    buffer.id > 1 => (IsPowerOfTwo(buffer.len) /\ buffer.len >= 2)

\* C7 amended: for a vector whose starting capacity is 0 or a power of two,
\* every capacity installed by a reallocating update is a power of two that is
\* at least 2; from any starting capacity it is at least 2
C7_PowerOfTwoFromPowerOfTwo ==
    buffer.id > 1 =>
        /\ buffer.len >= 2
        /\ (start_capacity = 0 \/ IsPowerOfTwo(start_capacity)) => IsPowerOfTwo(buffer.len)

\* started at 4, grown to 8
C7_Witness ==
    /\ start_capacity = 4
    /\ ctor = "with_capacity"
    /\ buffer.id > 1
    /\ buffer.len = 8

\* ------------------------------------------------------------------- C8
\* the least power of two that is >= n
LeastPowerOfTwo(n) ==
    CHOOSE p \in {2^k : k \in 0..USizeBits} :
        p >= n /\ \A q \in {2^k : k \in 0..USizeBits} : q >= n => p <= q

\* C8: for a vector made by `new`, the capacity is a function of the largest
\* data length M passed to update so far: 0 when M = 0, else the least power of
\* two >= max(2, M); largest lengths 1,2,3,4,5 give capacities 2,2,4,4,8
C8_CapacityFromLargestLen ==
    ctor = "new" =>
        /\ BufferVec_capacity = IF max_len = 0 THEN 0 ELSE LeastPowerOfTwo(Max(2, max_len))
        /\ max_len = 1 => BufferVec_capacity = 2
        /\ max_len = 2 => BufferVec_capacity = 2
        /\ max_len = 3 => BufferVec_capacity = 4
        /\ max_len = 4 => BufferVec_capacity = 4
        /\ max_len = 5 => BufferVec_capacity = 8

\* the largest update had 5 elements, the current one has fewer
C8_Witness ==
    /\ ctor = "new"
    /\ max_len = 5
    /\ len = 2
    /\ buffer.len = 8

\* ------------------------------------------------------------------- C9
\* C9: an update with the same data as the update before it leaves len and the
\* capacity as they were, allocates no buffer, keeps the buffer handle and does
\* not return true
C9_UpdateIdempotent ==
    [][(UpdateStep /\ last_op = "update" /\ last_data' = last_data) =>
            /\ len' = len
            /\ buffer'.len = buffer.len
            /\ buffer' = buffer
            /\ context'.created = context.created
            /\ ret' = IF kind = "BufferVec" THEN "false" ELSE "unit"]_vars

\* the first of two equal updates had reallocated; the second did not
C9_Witness ==
    /\ kind = "BufferVec"
    /\ last_op = "update"
    /\ last_data = [len |-> 3, payload |-> "p"]
    /\ buffer.id = 2
    /\ buffer.len = 4
    /\ ret = "false"
    /\ max_len = 3

\* ------------------------------------------------------------------ C10
\* C10: until the first update len is 0 and capacity() is what the constructor
\* was given (0 for `new`), with no rounding; a first update of n <= c elements
\* keeps the allocation and the capacity c and sets len to n
C10_ConstructorsExact ==
    /\ [](ret = "none" =>
            /\ len = 0
            /\ BufferVec_capacity = start_capacity
            /\ IndexBufferVec_capacity = start_capacity
            /\ ctor = "new" => BufferVec_capacity = 0)
    /\ [][(ret = "none" /\ UpdateStep /\ last_data'.len <= start_capacity) =>
            /\ buffer' = buffer
            /\ buffer'.len = start_capacity
            /\ context'.created = context.created
            /\ len' = last_data'.len
            /\ ret' # "true"]_vars

\* with_capacity(10), then a first update of 3 elements
C10_Witness ==
    /\ ctor = "with_capacity"
    /\ start_capacity = 10
    /\ len = 3
    /\ buffer.id = 1
    /\ buffer.len = 10
    /\ ret \in {"false", "unit"}
    /\ max_len = 3

\* a call to update, recognised from the outside by what it leaves in the
\* history (a step that retires a task leaves the history alone and shortens
\* the queue)
UpdateCalled ==
    /\ last_op' = "update"
    /\ vars' # vars
    /\ Len(context'.pending) >= Len(context.pending)

\* the elements of a slice: data.len times its contents
Elements(data) == [i \in 1..data.len |-> data.payload]

\* ------------------------------------------------------------------- C11
\* C11: on the context's queue, executed in submission order, every task that
\* reads through a view obtained after update(d) and is submitted before the
\* next update sees exactly d in [0, len): the upload of d has executed
\* before it, and the upload of any update called after the task was
\* submitted, reallocating or not, executes after it
C11_ReadsSeeTheirUpdate ==
    /\ observed.seen = Elements(observed.data)
    /\ \A i \in 1..Len(context.pending) :
         context.pending[i].op = "read" =>
            context.pending[i].end - context.pending[i].start = context.pending[i].data.len

\* a task submitted before a reallocating update with other data, executed
\* while that update's upload was already queued behind it, saw the previous
\* update's elements
C11_Witness ==
    /\ observed.overtaken
    /\ observed.id # buffer.id
    /\ observed.data # last_data
    /\ observed.data.len > 0
    /\ observed.seen = Elements(observed.data)
    /\ last_op = "update"

\* ------------------------------------------------------------------- C12
\* C12: every call to update appends exactly one upload command to the
\* context's queue, reallocating or not and also for empty data, and the
\* command writes the range [0, data.len()) of the buffer the vector holds
\* when the call returns (after a reallocation: the new buffer)
C12_OneUploadPerUpdate ==
    [][UpdateCalled =>
         context'.pending =
            Append(context.pending,
                   [op |-> "upload", id |-> buffer'.id, start |-> 0,
                    end |-> last_data'.len, data |-> last_data'])]_vars

\* a reallocating update has returned and its one command, for the new
\* buffer, is queued
C12_Witness ==
    /\ last_op = "update"
    /\ ret = "true"
    /\ buffer.id = 2
    /\ context.pending = <<[op |-> "upload", id |-> 2, start |-> 0, end |-> 3,
                            data |-> last_data]>>

\* ------------------------------------------------------------------- C13
\* C13: when the context's submit of the upload command fails, the call to
\* update does not complete normally: no update called on a context whose
\* submit fails has returned to its caller as if the data were uploaded
C13_FailureSurfaced ==
    (submit_mode # "accept" /\ last_data # NoData) => (pc = "panicked" /\ ret = "none")

\* ------------------------------------------------------------------- C14
\* C14: once an update has returned, the range [0, len) of the current
\* buffer is the destination of the upload of the most recent update: while
\* uploads are queued, the last of them writes exactly [0, len) of the current
\* buffer with that update's data; once they have executed, every element of
\* the range holds that data.  as_buffer_view returns that range and no more
PendingUploadAt ==
    {i \in 1..Len(context.pending) : context.pending[i].op = "upload"}

C14_RangeCoveredByLastUpload ==
    /\ last_data = NoData => len = 0
    /\ (last_data # NoData /\ PendingUploadAt # {}) =>
          LET last == CHOOSE i \in PendingUploadAt : \A j \in PendingUploadAt : j <= i
          IN  context.pending[last] =
                 [op |-> "upload", id |-> buffer.id, start |-> 0, end |-> len,
                  data |-> last_data]
    /\ (last_data # NoData /\ PendingUploadAt = {}) =>
          /\ len <= Len(memory[buffer.id])
          /\ SubSeq(memory[buffer.id], 1, len) = Elements(last_data)
    /\ last_op = "as_buffer_view" =>
          view = [tag |-> "Some", id |-> buffer.id, start |-> 0, end |-> len]

\* right after a reallocation into an uninitialised buffer: the upload has
\* executed, the view covers the written elements and not the rest of the
\* allocation
C14_Witness ==
    /\ buffer.id > 1
    /\ len > 0
    /\ len < buffer.len
    /\ context.pending = <<>>
    /\ memory[buffer.id] = Elements(last_data)
    /\ last_op = "as_buffer_view"
    /\ view.end = len

\* ------------------------------------------------------------------- C15
\* C15: a view is the allocation and the range it was taken of.  No update
\* changes a view the caller holds; an update that allocates leaves the view
\* on an allocation that is not the vector's current one; once that is so,
\* no later update brings the vector back to the view's allocation or submits
\* an upload that writes it; an update that does not allocate leaves a view of
\* the current allocation on that allocation, with the length it was taken with
C15_ViewsTiedToAllocation ==
    [][(UpdateCalled /\ view.tag = "Some") =>
         /\ view' = view
         /\ context'.created > context.created => view.id # buffer'.id
         /\ view.id # buffer.id =>
               /\ view.id # buffer'.id
               /\ context'.pending[Len(context'.pending)].id # view.id
         /\ (context'.created = context.created /\ view.id = buffer.id) =>
               /\ view'.id = buffer'.id
               /\ view'.end = view.end]_vars

\* a view of three elements taken before a reallocation; the vector has
\* moved on to another buffer and a later update, which did not reallocate,
\* has been made with data of another length
C15_Witness ==
    /\ view.tag = "Some"
    /\ view.end = 3
    /\ view.id # buffer.id
    /\ last_op = "update"
    /\ ret = "false"
    /\ len # view.end

\* the update method of the other kind, applied in place of the one that was
\* called, leaves the same fields; the flag is "true" exactly when the buffer
\* was replaced
OtherUpdate(data) ==
    IF kind = "BufferVec"
    THEN IndexBufferVec_update_effect(data)
    ELSE BufferVec_update_effect(data)

SameUpdate ==
    /\ [OtherUpdate(last_data') EXCEPT !.ret = ret'] =
          [len |-> len', buffer |-> buffer', context |-> context', ret |-> ret', pc |-> pc']
    /\ ret' = IF kind = "IndexBufferVec" THEN "unit"
              ELSE IF buffer'.id # buffer.id THEN "true" ELSE "false"
    /\ kind = "IndexBufferVec" =>
          BufferVec_update_effect(last_data').ret
             = (IF buffer'.id # buffer.id THEN "true" ELSE "false")

\* ------------------------------------------------------------------- C16
\* C16: BufferVec and IndexBufferVec are one algorithm.  The constructors
\* make equal fields from equal arguments, and at every call to update, of a
\* vector of either kind, the two update methods given the call's data leave
\* equal len, equal buffer (capacity, identity: the same calls allocate) and
\* an equal queue (the same uploads), which is what the call leaves; so two
\* vectors started alike and driven by the same data agree after every step.
\* They differ in what update returns: the reallocation flag, or nothing
C16_SameAlgorithm ==
    /\ [](/\ last_op = "new" =>
                BufferVec_new(FreshContext, hint) = IndexBufferVec_new(FreshContext, hint)
          /\ last_op = "with_capacity" =>
                BufferVec_with_capacity(FreshContext, hint, start_capacity)
                   = IndexBufferVec_with_capacity(FreshContext, hint, start_capacity)
          /\ IndexBufferVec_capacity = BufferVec_capacity)
    /\ [][UpdateCalled => SameUpdate]_vars

\* an IndexBufferVec that has reallocated twice, at a point where the next
\* update reallocates for some data and not for other
C16_Witness ==
    /\ kind = "IndexBufferVec"
    /\ buffer.id = 3
    /\ ret = "unit"
    /\ BufferVec_update_effect([len |-> 5, payload |-> "p"]).ret = "true"
    /\ BufferVec_update_effect([len |-> 1, payload |-> "p"]).ret = "false"

\* ------------------------------------------------------------------- C17
\* C17: after any sequence of updates the current buffer has the usage hint
\* that was passed to new or with_capacity; no step changes the hint of the
\* vector's buffer: the buffer a reallocating update creates has the hint of
\* the one it replaces
C17_UsageHintPreserved ==
    /\ hint \in UsageHints
    /\ buffer.usage = hint

\* a vector made with DynamicDraw that has reallocated twice and then reused
\* its buffer
C17_Witness ==
    /\ hint = "DynamicDraw"
    /\ buffer.usage = "DynamicDraw"
    /\ buffer.id = 3
    /\ last_op = "update"
    /\ ret = "false"

\* ------------------------------------------------------------------- C18
\* each reallocation installs at least twice the capacity it replaces, and
\* at least 2
GrowthDoubles ==
    buffer'.id # buffer.id => (buffer'.len >= 2 * buffer.len /\ buffer'.len >= 2)

\* C18 as stated: each reallocation at least doubles the capacity, and the sum
\* of the capacities of all buffers allocated by update is less than twice
\* the current capacity, whatever updates were made
C18_Original ==
    /\ [](allocated < 2 * BufferVec_capacity)
    /\ [][GrowthDoubles]_vars

\* C18, amended: each reallocation at least doubles the capacity, and once
\* update has allocated a buffer the sum of the capacities of all buffers it
\* allocated is less than twice the current capacity; before that the sum is 0
C18_AmortizedGrowth ==
    /\ [](/\ allocated >= 0
          /\ allocated > 0 => allocated < 2 * BufferVec_capacity
          /\ allocated = 0 => buffer.id = 1)
    /\ [][GrowthDoubles]_vars

\* three reallocations from the empty vector: 2 + 4 + 8 allocated, capacity 8
C18_Witness ==
    /\ start_capacity = 0
    /\ buffer.id = 4
    /\ BufferVec_capacity = 8
    /\ allocated = 14

\* ------------------------------------------------------------------- C19
\* C19: with capacities USizeBits wide, every call with current_capacity <
\* required_capacity returns, and returns Some(v) with v >= required_capacity:
\* the doubling neither leaves the usize range nor wraps
C19_TerminatesWithoutOverflow ==
    (pc = "returned" /\ plan.current_capacity < plan.required_capacity) =>
        /\ plan.result.tag = "Some"
        /\ plan.result.val >= plan.required_capacity
        /\ plan.result.val <= USizeMax

\* ------------------------------------------------------------------- C20
\* C20: whenever new_capacity_amortized(current, required) returns Some(v),
\* required <= v, and v < 2 * required when required >= 2; v reaches
\* 2 * required only as Some(2) for current 0 and required 1.  Hence every
\* update that reallocates for data of n >= 2 elements leaves capacity() < 2 * n
C20_OverAllocationBounded ==
    /\ [](plan.result.tag = "Some" =>
            LET required == plan.required_capacity
                v == plan.result.val
            IN  /\ required <= v
                /\ required >= 2 => v < 2 * required
                /\ v >= 2 * required =>
                      (plan.current_capacity = 0 /\ required = 1 /\ v = 2))
    /\ [][(UpdateCalled /\ buffer'.id # buffer.id /\ last_data'.len >= 2) =>
            /\ BufferVec_capacity' >= last_data'.len
            /\ BufferVec_capacity' < 2 * last_data'.len]_vars

\* the planner called with capacity 4 for 5 elements has returned Some(8)
C20_Witness ==
    /\ pc = "returned"
    /\ plan.current_capacity = 4
    /\ plan.required_capacity = 5
    /\ plan.result = Some(8)

====
